---- MODULE Spec2Model ----
(***************************************************************************)
(* The motionEye integration (homeassistant/components/motioneye):         *)
(* config-entry setup and unload, the coordinator's polls with the camera  *)
(* reconciliation listener, the web hook configurator (_add_camera,        *)
(* _set_webhook, _build_url) and the inbound web hook receiver.            *)
(*                                                                         *)
(* Python dicts are functions whose DOMAIN is the set of keys present;     *)
(* strings are TLA+ strings (Len, SubSeq and \o work on them).             *)
(***************************************************************************)
EXTENDS Naturals, Sequences, FiniteSets, TLC

VARIABLES
    pc,              \* where the config entry is in setup / unload
    entryData,       \* entry.data: the keys this code reads and writes
    options,         \* entry.options
    hubUrl,          \* what get_url(hass) yields: a URL, or NoUrl
    client,          \* the MotionEyeClient's session
    webhooks,        \* webhook ids registered with the hub, each with its handler
    hassData,        \* hass.data[DOMAIN]: entry id -> client/coordinator record
    platforms,       \* whether the camera and switch platforms are set up
    listeners,       \* listeners attached by setup_then_listen
    coordData,       \* coordinator.data
    currentCameras,  \* current_cameras of the running session
    devices,         \* the device registry: device id -> entry
    deleted,         \* the registry's deleted devices: device id -> identifiers
    setups,          \* how many times async_setup_entry was called
    last,            \* the last operation with what it returned and emitted
    hook,            \* the pair (camera, arguments) _set_webhook is applied to
    history          \* the running session so far: what its listener saw and added

vars == <<pc, entryData, options, hubUrl, client, webhooks, hassData, platforms,
          listeners, coordData, currentCameras, devices, deleted, setups, last,
          hook, history>>

----------------------------------------------------------------------------
(* Bounds of the model.                                                    *)

\* Longest camera list a poll returns.
MaxCams == 2
\* Camera ids the remote device hands out: 1..MaxCameraId.
MaxCameraId == 2
\* Number of setups of the entry that are explored.
MaxSetups == 2

----------------------------------------------------------------------------
(* Constants of the integration and of the libraries it imports.           *)

DOMAIN_NAME == "motioneye"
ENTRY_ID == "e1"
OTHER_ENTRY_ID == "e2"
CONF_WEBHOOK_ID == "webhook_id"
CONF_WEBHOOK_SET == "webhook_set"
CONF_WEBHOOK_SET_OVERWRITE == "webhook_set_overwrite"
DEFAULT_WEBHOOK_SET == TRUE
DEFAULT_WEBHOOK_SET_OVERWRITE == FALSE
ATTR_DEVICE_ID == "device_id"
ATTR_EVENT_TYPE == "event_type"
ATTR_NAME == "name"
ATTR_WEBHOOK_ID == "webhook_id"
WEB_HOOK_SENTINEL_KEY == "src"
WEB_HOOK_SENTINEL_VALUE == "hass-motioneye"
EVENT_MOTION_DETECTED == "motion_detected"
EVENT_FILE_STORED == "file_stored"
KEY_ID == "id"
KEY_NAME == "name"
KEY_CAMERAS == "cameras"
KEY_HTTP_METHOD_GET == "GET"
KEY_HTTP_METHOD_POST_JSON == "POST (json)"
KEY_WEB_HOOK_NOTIFICATIONS_URL == "web_hook_notifications_url"
KEY_WEB_HOOK_NOTIFICATIONS_HTTP_METHOD == "web_hook_notifications_http_method"
KEY_WEB_HOOK_NOTIFICATIONS_ENABLED == "web_hook_notifications_enabled"
KEY_WEB_HOOK_STORAGE_URL == "web_hook_storage_url"
KEY_WEB_HOOK_STORAGE_HTTP_METHOD == "web_hook_storage_http_method"
KEY_WEB_HOOK_STORAGE_ENABLED == "web_hook_storage_enabled"

\* The conversion specifiers motionEye substitutes, by key (an excerpt of the
\* client library's table: plain ones and the two brace forms).
KEY_WEB_HOOK_CONVERSION_SPECIFIERS ==
    [k \in {"camera_id", "event", "file_path", "fps", "host"} |->
        CASE k = "camera_id" -> "%t"
          [] k = "event" -> "%v"
          [] k = "file_path" -> "%f"
          [] k = "fps" -> "%{fps}"
          [] k = "host" -> "%{host}"]

\* The keys each event's URL carries, in the order const.py lists them.
EVENT_MOTION_DETECTED_KEYS == <<"event", "camera_id", "fps", "host">>
EVENT_FILE_STORED_KEYS == <<"event", "camera_id", "file_path", "host">>

\* Python's order on the key strings above (what sorted() goes by).
KeyRank ==
    [k \in DOMAIN KEY_WEB_HOOK_CONVERSION_SPECIFIERS |->
        CASE k = "camera_id" -> 1
          [] k = "event" -> 2
          [] k = "file_path" -> 3
          [] k = "fps" -> 4
          [] k = "host" -> 5]

\* Values that are no string of the program.
NoUrl == "<no url>"

----------------------------------------------------------------------------
(* Strings.                                                                *)

Range(s) == {s[i] : i \in DOMAIN s}

\* Python's "sub in s".
Contains(s, sub) ==
    \E i \in 1..(Len(s) + 1) :
        /\ i + Len(sub) - 1 <= Len(s)
        /\ SubSeq(s, i, i + Len(sub) - 1) = sub

Digits == <<"0", "1", "2", "3", "4", "5", "6", "7", "8", "9">>

\* str(n) for the small numbers of the model.
IntToStr(n) == IF n < 10 THEN Digits[n + 1]
               ELSE Digits[(n \div 10) + 1] \o Digits[(n % 10) + 1]

\* sorted(keys): insertion into an ascending sequence.
RECURSIVE InsertSorted(_, _)
InsertSorted(k, s) ==
    IF s = <<>> THEN <<k>>
    ELSE IF KeyRank[k] <= KeyRank[Head(s)] THEN <<k>> \o s
    ELSE <<Head(s)>> \o InsertSorted(k, Tail(s))

RECURSIVE Sorted(_)
Sorted(keys) == IF keys = <<>> THEN <<>>
                ELSE InsertSorted(Head(keys), Sorted(Tail(keys)))

\* The unreserved characters without the hyphen.
AlwaysSafeNoHyphen ==
    {"a", "b", "c", "d", "e", "f", "g", "h", "i", "j", "k", "l", "m", "n", "o",
     "p", "q", "r", "s", "t", "u", "v", "w", "x", "y", "z",
     "0", "1", "2", "3", "4", "5", "6", "7", "8", "9", "_", ".", "~"}

\* The characters quote_plus leaves alone whatever "safe" is.
AlwaysSafe ==
    {"a", "b", "c", "d", "e", "f", "g", "h", "i", "j", "k", "l", "m", "n", "o",
     "p", "q", "r", "s", "t", "u", "v", "w", "x", "y", "z",
     "0", "1", "2", "3", "4", "5", "6", "7", "8", "9", "_", ".", "-", "~"}

\* The characters _build_url passes as safe="%{}".
BuildUrlSafe == {"%", "{", "}"}

\* %XX of the characters outside the safe set that the model's strings hold.
PercentCode(c) ==
    CASE c = "/" -> "%2F"
      [] c = ":" -> "%3A"
      [] c = "=" -> "%3D"
      [] c = "&" -> "%26"
      [] c = "?" -> "%3F"
      [] c = "%" -> "%25"
      [] c = "{" -> "%7B"
      [] c = "}" -> "%7D"
      [] c = "-" -> "%2D"
      [] OTHER -> "%3F"

\* urllib.parse.quote_plus(s, safe).
RECURSIVE QuotePlus(_, _)
QuotePlus(s, safe) ==
    IF Len(s) = 0 THEN ""
    ELSE LET c == SubSeq(s, 1, 1)
             q == IF c \in AlwaysSafe \cup safe THEN c
                  ELSE IF c = " " THEN "+"
                  ELSE PercentCode(c)
         IN q \o QuotePlus(SubSeq(s, 2, Len(s)), safe)

\* urllib.parse.urlencode(pairs, safe=safe): pairs is a sequence of <<key, value>>.
RECURSIVE UrlEncode(_, _)
UrlEncode(pairs, safe) ==
    IF pairs = <<>> THEN ""
    ELSE LET p == Head(pairs)
             one == QuotePlus(p[1], safe) \o "=" \o QuotePlus(p[2], safe)
         IN IF Len(pairs) = 1 THEN one
            ELSE one \o "&" \o UrlEncode(Tail(pairs), safe)

\* The part of a URL before its query and fragment.
RECURSIVE BeforeQuery(_)
BeforeQuery(s) ==
    IF Len(s) = 0 THEN ""
    ELSE IF SubSeq(s, 1, 1) \in {"?", "#"} THEN ""
    ELSE SubSeq(s, 1, 1) \o BeforeQuery(SubSeq(s, 2, Len(s)))

\* urllib.parse.urljoin(base, ref) for a ref that is only a query, "?...":
\* scheme, host and path are the base's, the query is the ref's.
UrlJoin(base, ref) == BeforeQuery(base) \o ref

----------------------------------------------------------------------------
(* Dicts.                                                                  *)

EmptyDict == [k \in {} |-> TRUE]

Has(d, k) == k \in DOMAIN d

\* d with d[k] = v, the key added when it is not there.
Put(d, k, v) == [x \in DOMAIN d \cup {k} |-> IF x = k THEN v ELSE d[x]]

\* entry.options.get(key, default)
OptionGet(opts, key, default) == IF Has(opts, key) THEN opts[key] ELSE default

----------------------------------------------------------------------------
(* The device registry (helpers/device_registry.py), as far as this code   *)
(* uses it. A device entry is [identifiers, config_entries, name]; devices *)
(* maps the ids of the live devices to their entries, deleted maps the ids *)
(* of removed devices to the identifiers they had.                         *)

\* get_motioneye_device_identifier
get_motioneye_device_identifier(config_entry_id, camera_id) ==
    <<DOMAIN_NAME, config_entry_id \o "_" \o IntToStr(camera_id)>>

\* The id of a device that was never registered (a uuid in the code).
FreshDeviceId(devs, del) ==
    "d" \o IntToStr(Cardinality(DOMAIN devs \cup DOMAIN del))

\* The device async_get_or_create works on: a live one with one of the
\* identifiers, else a deleted one with one of them (it is restored under its
\* old id), else a new one.
DeviceIdFor(devs, del, identifiers) ==
    IF \E d \in DOMAIN devs : devs[d].identifiers \cap identifiers # {}
    THEN CHOOSE d \in DOMAIN devs : devs[d].identifiers \cap identifiers # {}
    ELSE IF \E d \in DOMAIN del : del[d] \cap identifiers # {}
    THEN CHOOSE d \in DOMAIN del : del[d] \cap identifiers # {}
    ELSE FreshDeviceId(devs, del)

\* The entry of device id after async_get_or_create: the config entry and the
\* identifiers are added, the name is set.
UpdatedDevice(devs, id, config_entry_id, identifiers, name) ==
    [identifiers |-> identifiers \cup
                     (IF id \in DOMAIN devs THEN devs[id].identifiers ELSE {}),
     config_entries |-> {config_entry_id} \cup
                        (IF id \in DOMAIN devs THEN devs[id].config_entries
                         ELSE {}),
     name |-> name]

\* The registry after async_get_or_create has settled on device id.
RegistryWith(devs, del, id, entry) ==
    [id |-> id,
     devices |-> Put(devs, id, entry),
     deleted |-> [d \in DOMAIN del \ {id} |-> del[d]]]

\* DeviceRegistry.async_get_or_create: the device's id and the registry after.
AsyncGetOrCreateAs(devs, del, id, config_entry_id, identifiers, name) ==
    RegistryWith(devs, del, id,
                 UpdatedDevice(devs, id, config_entry_id, identifiers, name))

AsyncGetOrCreate(devs, del, config_entry_id, identifiers, name) ==
    AsyncGetOrCreateAs(devs, del, DeviceIdFor(devs, del, identifiers),
                       config_entry_id, identifiers, name)

\* DeviceRegistry.async_remove_device
AsyncRemoveDevice(devs, del, id) ==
    [devices |-> [d \in DOMAIN devs \ {id} |-> devs[d]],
     deleted |-> Put(del, id, devs[id].identifiers)]

\* dr.async_entries_for_config_entry: the ids of the entry's devices.
AsyncEntriesForConfigEntry(devs, config_entry_id) ==
    {d \in DOMAIN devs : config_entry_id \in devs[d].config_entries}

----------------------------------------------------------------------------
(* The web hook configurator.                                              *)

\* webhook.async_generate_path
AsyncGeneratePath(webhook_id) == "/api/webhook/" \o webhook_id

\* async_generate_motioneye_webhook: NoUrl stands for None.
async_generate_motioneye_webhook(hub, webhook_id) ==
    IF hub = NoUrl THEN NoUrl ELSE hub \o AsyncGeneratePath(webhook_id)

\* _is_recognized_web_hook looking for the sentinel key alone.
IsRecognizedByKey(url) == Contains(url, WEB_HOOK_SENTINEL_KEY \o "=")

\* _add_camera._is_recognized_web_hook
IsRecognizedWebHook(url) ==
    Contains(url, WEB_HOOK_SENTINEL_KEY \o "=" \o WEB_HOOK_SENTINEL_VALUE)

\* The dict _build_url encodes, as the sequence of its items.
BuildUrlItems(device_id, event_type, keys) ==
    LET sk == Sorted(keys)
    IN [i \in 1..Len(sk) |-> <<sk[i], KEY_WEB_HOOK_CONVERSION_SPECIFIERS[sk[i]]>>]
       \o << <<WEB_HOOK_SENTINEL_KEY, WEB_HOOK_SENTINEL_VALUE>>,
             <<ATTR_EVENT_TYPE, event_type>>,
             <<ATTR_DEVICE_ID, device_id>> >>

\* _add_camera._build_url
BuildUrl(device_id, base, event_type, keys) ==
    UrlJoin(base, "?" \o UrlEncode(BuildUrlItems(device_id, event_type, keys),
                                  BuildUrlSafe))

\* The first half with "camera.get(key_url) is None" for "not
\* camera.get(key_url)": an empty URL is not taken for an unset one.
SetWebhookMayUnlessEmpty(overwrite, key_url, camera) ==
    \/ overwrite
    \/ ~Has(camera, key_url)
    \/ IsRecognizedWebHook(camera[key_url])

\* The first half of _set_webhook's condition: the hook may be written.
SetWebhookMay(overwrite, key_url, camera) ==
    \/ overwrite
    \/ ~Has(camera, key_url)
    \/ camera[key_url] = ""
    \/ IsRecognizedWebHook(camera[key_url])

\* The second half left out: the hook is written whenever it may be.
SetWebhookNeedsAlways(url, key_url, key_method, key_enabled, camera) == TRUE

\* The second half: the hook is not yet what it should be.
SetWebhookNeeds(url, key_url, key_method, key_enabled, camera) ==
    \/ ~Has(camera, key_enabled)
    \/ ~camera[key_enabled]
    \/ ~Has(camera, key_method)
    \/ camera[key_method] # KEY_HTTP_METHOD_POST_JSON
    \/ ~Has(camera, key_url)
    \/ camera[key_url] # url

\* The camera after _set_webhook's three assignments.
SetWebhookWrite(url, key_url, key_method, key_enabled, camera) ==
    Put(Put(Put(camera, key_enabled, TRUE),
            key_method, KEY_HTTP_METHOD_POST_JSON),
        key_url, url)

\* _add_camera._set_webhook: what it returns and the camera after it.
SetWebhook(overwrite, url, key_url, key_method, key_enabled, camera) ==
    IF /\ SetWebhookMay(overwrite, key_url, camera)
       /\ SetWebhookNeeds(url, key_url, key_method, key_enabled, camera)
    THEN [set |-> TRUE,
          camera |-> SetWebhookWrite(url, key_url, key_method, key_enabled, camera)]
    ELSE [set |-> FALSE, camera |-> camera]

\* The push scheduled only when both hooks were written.
PushNeededBoth(set_motion_event, set_storage_event) ==
    set_motion_event /\ set_storage_event

\* Whether _add_camera schedules client.async_set_camera.
PushNeeded(set_motion_event, set_storage_event) ==
    set_motion_event \/ set_storage_event

\* The url taken without looking at CONF_WEBHOOK_SET.
WebhookUrlWhateverOption(opts, data, hub) ==
    async_generate_motioneye_webhook(hub, data[CONF_WEBHOOK_ID])

\* _add_camera's url: the web hook's URL when the web hooks are to be set and
\* the hub has a URL, else NoUrl.
WebhookUrl(opts, data, hub) ==
    IF OptionGet(opts, CONF_WEBHOOK_SET, DEFAULT_WEBHOOK_SET)
    THEN async_generate_motioneye_webhook(hub, data[CONF_WEBHOOK_ID])
    ELSE NoUrl

\* The first call of _set_webhook in _add_camera: the motion hook.
SetMotionHook(overwrite, url, device_id, camera) ==
    SetWebhook(overwrite,
               BuildUrl(device_id, url, EVENT_MOTION_DETECTED,
                        EVENT_MOTION_DETECTED_KEYS),
               KEY_WEB_HOOK_NOTIFICATIONS_URL,
               KEY_WEB_HOOK_NOTIFICATIONS_HTTP_METHOD,
               KEY_WEB_HOOK_NOTIFICATIONS_ENABLED,
               camera)

\* The second call: the storage hook.
SetStorageHook(overwrite, url, device_id, camera) ==
    SetWebhook(overwrite,
               BuildUrl(device_id, url, EVENT_FILE_STORED,
                        EVENT_FILE_STORED_KEYS),
               KEY_WEB_HOOK_STORAGE_URL,
               KEY_WEB_HOOK_STORAGE_HTTP_METHOD,
               KEY_WEB_HOOK_STORAGE_ENABLED,
               camera)

\* The pushes _add_camera schedules once both hooks were seen to: the camera
\* dict it hands to async_set_camera is the one both calls have changed.
Pushes(camera_id, motion, storage) ==
    IF PushNeeded(motion.set, storage.set)
    THEN << <<camera_id, storage.camera>> >>
    ELSE <<>>

\* What the "if url:" block of _add_camera leaves: the camera dict, what the
\* two calls returned, the pushes.
Configured(camera_id, motion, storage) ==
    [camera |-> storage.camera,
     set_motion_event |-> motion.set,
     set_storage_event |-> storage.set,
     pushes |-> Pushes(camera_id, motion, storage)]

ConfigureStorage(overwrite, url, device_id, camera_id, motion) ==
    Configured(camera_id, motion,
               SetStorageHook(overwrite, url, device_id, motion.camera))

\* The block guarded by CONF_WEBHOOK_SET and "if url:".
ConfigureHooks(overwrite, url, device_id, camera_id, camera) ==
    IF url # NoUrl /\ url # ""
    THEN ConfigureStorage(overwrite, url, device_id, camera_id,
                          SetMotionHook(overwrite, url, device_id, camera))
    ELSE [camera |-> camera, set_motion_event |-> FALSE,
          set_storage_event |-> FALSE, pushes |-> <<>>]

\* _add_camera's end: the signal carries the camera dict.
AddCameraDone(got, hooks) ==
    [devices |-> got.devices,
     deleted |-> got.deleted,
     device_id |-> got.id,
     camera |-> hooks.camera,
     set_motion_event |-> hooks.set_motion_event,
     set_storage_event |-> hooks.set_storage_event,
     pushes |-> hooks.pushes,
     signals |-> <<hooks.camera>>]

AddCameraOn(got, opts, data, hub, camera_id, camera) ==
    AddCameraDone(got,
                  ConfigureHooks(OptionGet(opts, CONF_WEBHOOK_SET_OVERWRITE,
                                           DEFAULT_WEBHOOK_SET_OVERWRITE),
                                 WebhookUrl(opts, data, hub),
                                 got.id, camera_id, camera))

\* _add_camera: the registry, the camera dict, the pushes scheduled and the
\* signals dispatched after it.
AddCamera(devs, del, opts, data, hub, camera_id, camera, device_identifier) ==
    AddCameraOn(AsyncGetOrCreate(devs, del, ENTRY_ID, {device_identifier},
                                 camera[KEY_NAME]),
                opts, data, hub, camera_id, camera)

----------------------------------------------------------------------------
(* The reconciliation listener.                                            *)

\* is_acceptable_camera
is_acceptable_camera(camera) ==
    camera # EmptyDict /\ Has(camera, KEY_ID) /\ Has(camera, KEY_NAME)

\* The listener without the "in current_cameras" test.
AlreadyKnownNever(device_identifier, current) == FALSE

\* Whether the listener skips a camera: its identifier is already known.
AlreadyKnown(device_identifier, current) == device_identifier \in current

\* The listener's locals and what it has changed and emitted so far, after a
\* camera was added.
Added(st, i, device_identifier, add) ==
    [st EXCEPT !.current = @ \cup {device_identifier},
               !.devices = add.devices,
               !.deleted = add.deleted,
               !.cameras[i] = add.camera,
               !.added = Append(@, device_identifier),
               !.pushes = @ \o add.pushes,
               !.signals = @ \o add.signals]

\* One pass of the first loop of _async_process_motioneye_cameras over an
\* acceptable camera whose identifier is device_identifier.
LoopStep(st, i, opts, data, hub, device_identifier) ==
    IF AlreadyKnown(device_identifier, st.current)
    THEN [st EXCEPT !.inbound = @ \cup {device_identifier}]
    ELSE Added([st EXCEPT !.inbound = @ \cup {device_identifier}],
               i, device_identifier,
               AddCamera(st.devices, st.deleted, opts, data, hub,
                         st.cameras[i][KEY_ID], st.cameras[i],
                         device_identifier))

\* The first loop, from the i-th camera on. st holds the listener's locals and
\* everything the loop changes; returned is set when the loop left the
\* function at an unacceptable camera.
RECURSIVE LoopCameras(_, _, _, _, _)
LoopCameras(st, i, opts, data, hub) ==
    IF i > Len(st.cameras) THEN st
    ELSE IF ~is_acceptable_camera(st.cameras[i])
    THEN [st EXCEPT !.returned = TRUE]
    ELSE LoopCameras(
           LoopStep(st, i, opts, data, hub,
                    get_motioneye_device_identifier(ENTRY_ID,
                                                    st.cameras[i][KEY_ID])),
           i + 1, opts, data, hub)

\* IsStale as a loop whose else branch is reached only when there is no
\* identifier to look at.
IsStaleNoIdentifier(device_entry, inbound) == device_entry.identifiers = {}

\* Whether the second loop removes a device: none of its identifiers is inbound.
IsStale(device_entry, inbound) == device_entry.identifiers \cap inbound = {}

\* st after async_remove_device.
Removed(st, d, rm) ==
    [st EXCEPT !.devices = rm.devices,
               !.deleted = rm.deleted,
               !.removed = @ \cup {d}]

\* The second loop, over the devices todo of the entry: each stale one is
\* removed.
RECURSIVE RemoveStale(_, _)
RemoveStale(st, todo) ==
    IF todo = {} THEN st
    ELSE IF IsStale(st.devices[CHOOSE x \in todo : TRUE], st.inbound)
    THEN RemoveStale(Removed(st, CHOOSE x \in todo : TRUE,
                             AsyncRemoveDevice(st.devices, st.deleted,
                                               CHOOSE x \in todo : TRUE)),
                     todo \ {CHOOSE x \in todo : TRUE})
    ELSE RemoveStale(st, todo \ {CHOOSE x \in todo : TRUE})

\* The listener's locals when it starts on the camera list.
ListenerStart(cameras, current, devs, del) ==
    [cameras |-> cameras, current |-> current, devices |-> devs,
     deleted |-> del, inbound |-> {}, returned |-> FALSE,
     added |-> <<>>, pushes |-> <<>>, signals |-> <<>>, removed |-> {}]

\* The second loop over every device of the registry, not the entry's alone.
AfterLoopAllDevices(looped) ==
    IF looped.returned THEN looped
    ELSE RemoveStale(looped, DOMAIN looped.devices)

\* The listener from the second loop on, unless the first loop returned.
AfterLoop(looped) ==
    IF looped.returned THEN looped
    ELSE RemoveStale(looped,
                     AsyncEntriesForConfigEntry(looped.devices, ENTRY_ID))

\* The listener's result with coordinator.data, whose camera dicts it has
\* changed in place.
WithCoordData(coord, done) ==
    done @@ [coordData |-> <<Put(coord[1], KEY_CAMERAS, done.cameras)>>]

\* The listener taking missing data for an empty camera list: the second loop
\* runs also when there is nothing to go by.
ProcessNoneAsEmptyList(coord, current, devs, del, opts, data, hub) ==
    IF coord = <<>> \/ ~Has(coord[1], KEY_CAMERAS)
    THEN AfterLoop(ListenerStart(<<>>, current, devs, del))
         @@ [coordData |-> coord]
    ELSE WithCoordData(
           coord,
           AfterLoop(LoopCameras(ListenerStart(coord[1][KEY_CAMERAS], current,
                                               devs, del),
                                 1, opts, data, hub)))

\* _async_process_motioneye_cameras. coord is coordinator.data: <<>> for None,
\* else <<dict>>. The result holds coordinator.data after it, current_cameras,
\* the registry, and what was emitted.
ProcessMotioneyeCameras(coord, current, devs, del, opts, data, hub) ==
    IF coord = <<>> \/ ~Has(coord[1], KEY_CAMERAS)
    THEN [ListenerStart(<<>>, current, devs, del) EXCEPT !.returned = TRUE]
         @@ [coordData |-> coord]
    ELSE WithCoordData(
           coord,
           AfterLoop(LoopCameras(ListenerStart(coord[1][KEY_CAMERAS], current,
                                               devs, del),
                                 1, opts, data, hub)))

----------------------------------------------------------------------------
(* The web hook receiver.                                                  *)
(*                                                                         *)
(* A request body is [kind, str, items, obj]: kind "undecodable" when      *)
(* request.json() raises, else the kind of the JSON value, which is held   *)
(* in str (a string, a number's digits), items (an array of strings) or    *)
(* obj (an object: key -> [kind, str, items]).                             *)

JsonString(s) == [kind |-> "string", str |-> s, items |-> <<>>]
JsonArray(a) == [kind |-> "array", str |-> "", items |-> a]

Body(kind, s, a, o) == [kind |-> kind, str |-> s, items |-> a, obj |-> o]

\* Python's "key in data" for a decoded body: "TypeError" when data's type
\* has no membership test.
KeyIn(key, body) ==
    CASE body.kind = "object" -> IF Has(body.obj, key) THEN "yes" ELSE "no"
      [] body.kind = "array" -> IF key \in Range(body.items) THEN "yes" ELSE "no"
      [] body.kind = "string" -> IF Contains(body.str, key) THEN "yes" ELSE "no"
      [] OTHER -> "TypeError"

\* The first of the two required keys that "key not in data" reports, "" when
\* both are there, "TypeError" when the test itself raises.
MissingKey(body) ==
    LET a == KeyIn(ATTR_DEVICE_ID, body)
        b == KeyIn(ATTR_EVENT_TYPE, body)
    IN IF a = "TypeError" THEN "TypeError"
       ELSE IF a = "no" THEN ATTR_DEVICE_ID
       ELSE IF b = "no" THEN ATTR_EVENT_TYPE
       ELSE ""

\* str() of a JSON value inside an f-string.
JsonStr(v) == IF v.kind = "array" THEN "[...]" ELSE v.str

\* The payload handle_webhook fires: the three fields, then **data.
EventPayload(device_id, device_name, webhook_id, obj) ==
    LET base == (ATTR_DEVICE_ID :> JsonString(device_id))
                @@ (ATTR_NAME :> JsonString(device_name))
                @@ (ATTR_WEBHOOK_ID :> JsonString(webhook_id))
    IN obj @@ base

\* handle_webhook: what it returns ("None", or "400" for the Bad Request
\* response), what it raises and the events it fires on the bus.
HandleWebhook(devs, webhook_id, body) ==
    LET answer(ret, exc, evs) == [returned |-> ret, raised |-> exc, events |-> evs]
    IN IF body.kind = "undecodable" THEN answer("400", "", <<>>)
       ELSE IF MissingKey(body) = "TypeError" THEN answer("", "TypeError", <<>>)
       ELSE IF MissingKey(body) # "" THEN answer("400", "", <<>>)
       ELSE IF body.kind # "object" THEN answer("", "TypeError", <<>>)
       ELSE
         LET event_type == body.obj[ATTR_EVENT_TYPE]
             device_id == body.obj[ATTR_DEVICE_ID]
         IN IF device_id.kind = "array" THEN answer("", "TypeError", <<>>)
            ELSE IF ~(device_id.kind = "string" /\ device_id.str \in DOMAIN devs)
            THEN answer("400", "", <<>>)
            ELSE answer("None", "",
                        << <<DOMAIN_NAME \o "." \o JsonStr(event_type),
                             EventPayload(device_id.str, devs[device_id.str].name,
                                          webhook_id, body.obj)>> >>)

----------------------------------------------------------------------------
(* Inputs.                                                                 *)

HUB_URL == "http://hub:8123"
FOREIGN_URL == "http://user/hook?src=me"
CAMERA_NAME == "cam"

\* The integration's own hook URLs as an earlier session may have written
\* them, for the device ids and web hook ids of the model.
OwnUrl(device_id, webhook_id, event_type, keys) ==
    BuildUrl(device_id, async_generate_motioneye_webhook(HUB_URL, webhook_id),
             event_type, keys)

\* A camera dict of the remote device: id and name, and the hook fields given.
Camera(camera_id, hooks) ==
    hooks @@ (KEY_ID :> camera_id) @@ (KEY_NAME :> CAMERA_NAME)

\* The cameras a poll may list: acceptable ones, whose hooks were never set,
\* and unacceptable ones, without an id or without a name.
PollCameras ==
    {Camera(c, EmptyDict) : c \in 1..MaxCameraId}
    \cup {(KEY_NAME :> CAMERA_NAME), (KEY_ID :> MaxCameraId)}

RECURSIVE SeqsUpTo(_, _)
SeqsUpTo(S, n) ==
    IF n = 0 THEN {<<>>}
    ELSE LET shorter == SeqsUpTo(S, n - 1)
         IN shorter \cup {Append(q, x) : q \in shorter, x \in S}

\* What client.async_get_cameras may return: None, a dict without the cameras
\* key, or a dict with a camera list.
PollResults ==
    {<<>>, <<EmptyDict>>}
    \cup {<<(KEY_CAMERAS :> l)>> : l \in SeqsUpTo(PollCameras, MaxCams)}

\* The outcomes of client.async_client_login: "ok" or the exception raised.
LoginOutcomes == {"ok", "MotionEyeClientInvalidAuthError", "MotionEyeClientError",
                  "MotionEyeClientConnectionError"}

\* webhook.async_generate_id: a random id, which never repeats; the n-th
\* setup draws the n-th id.
AsyncGenerateId(n) == "w" \o IntToStr(n)

\* The request bodies the remote device, or anyone else, may post.
WebhookObjects ==
    {d @@ e @@ n :
        d \in {EmptyDict} \cup {(ATTR_DEVICE_ID :> v) :
                 v \in {JsonString("d0"), JsonString("d1"), JsonString("nope"),
                        JsonArray(<<"d1">>)}},
        e \in {EmptyDict, (ATTR_EVENT_TYPE :> JsonString(EVENT_MOTION_DETECTED))},
        n \in {EmptyDict, (ATTR_NAME :> JsonString("evil"))}}

WebhookBodies ==
    {Body("undecodable", "", <<>>, EmptyDict),
     Body("number", "5", <<>>, EmptyDict),
     Body("null", "", <<>>, EmptyDict),
     Body("string", "hello", <<>>, EmptyDict),
     Body("string", "device_id event_type", <<>>, EmptyDict),
     Body("array", "", <<>>, EmptyDict),
     Body("array", "", <<ATTR_DEVICE_ID, ATTR_EVENT_TYPE>>, EmptyDict)}
    \cup {Body("object", "", <<>>, o) : o \in WebhookObjects}

----------------------------------------------------------------------------
(* The state machine.                                                      *)

\* What an operation left behind: what it returned or raised (and the
\* exception that caused it), and what it
\* emitted (bus events, pushes to the remote device, camera-add signals).
Quiet(op) ==
    [op |-> op, returned |-> "", raised |-> "", cause |-> "", polled |-> <<>>,
     webhook_id |-> "", request |-> <<>>,
     events |-> <<>>, pushes |-> <<>>, signals |-> <<>>,
     added |-> <<>>, removed |-> {}, reconciled |-> FALSE]

\* A session in which the listener has not run yet: seen holds the device
\* identifiers its first loop has come to, adds how often each was added.
NoHistory == [seen |-> {}, adds |-> EmptyDict]

\* adds after the listener added the identifiers of the sequence added.
RECURSIVE CountAdds(_, _)
CountAdds(adds, added) ==
    IF added = <<>> THEN adds
    ELSE CountAdds(Put(adds, Head(added),
                       IF Has(adds, Head(added)) THEN adds[Head(added)] + 1
                       ELSE 1),
                   Tail(added))

\* The session's history after the listener run r.
Recorded(h, r) ==
    [seen |-> h.seen \cup r.inbound, adds |-> CountAdds(h.adds, r.added)]

\* The hook experiment's variable outside the hook specifications.
NoHook == [stage |-> "none"]

InitRegistry ==
    ("d0" :> [identifiers |-> {<<"other", "x">>},
              config_entries |-> {OTHER_ENTRY_ID},
              name |-> "other"])

\* The entry's options with what get_url yields: the defaults with and without
\* a hub URL, and the web hooks switched off.
InitSettings ==
    {<<EmptyDict, HUB_URL>>, <<EmptyDict, NoUrl>>,
     <<(CONF_WEBHOOK_SET :> FALSE), HUB_URL>>}

Init ==
    /\ pc = "not_loaded"
    /\ entryData = EmptyDict
    /\ \E setting \in InitSettings :
        options = setting[1] /\ hubUrl = setting[2]
    /\ client = "none"
    /\ webhooks = {}
    /\ hassData = EmptyDict
    /\ platforms = "not_set_up"
    /\ listeners = {}
    /\ coordData = <<>>
    /\ currentCameras = {}
    /\ devices = InitRegistry
    /\ deleted = EmptyDict
    /\ setups = 0
    /\ last = Quiet("none")
    /\ hook = NoHook
    /\ history = NoHistory

\* async_setup_entry up to its first await: the client is created and logs in.
SetupStart ==
    /\ pc \in {"not_loaded", "setup_retry", "setup_error"}
    /\ setups < MaxSetups
    /\ pc' = "login"
    /\ setups' = setups + 1
    /\ client' = "connecting"
    /\ last' = Quiet("setup")
    /\ UNCHANGED <<entryData, options, hubUrl, webhooks, hassData, platforms,
                   listeners, coordData, currentCameras, devices, deleted, hook,
                   history>>

\* isinstance(exc, cls) for the client library's exceptions.
IsInstance(exc, cls) ==
    \/ exc = cls
    \/ cls = "MotionEyeClientError"
       /\ exc \in {"MotionEyeClientInvalidAuthError",
                   "MotionEyeClientConnectionError"}

\* The except clauses in the other order: the base class first.
SetupRaisesBaseFirst(exc) ==
    IF IsInstance(exc, "MotionEyeClientError") THEN "ConfigEntryNotReady"
    ELSE IF IsInstance(exc, "MotionEyeClientInvalidAuthError")
    THEN "ConfigEntryAuthFailed"
    ELSE exc

\* What async_setup_entry raises for a login exception: the first except
\* clause that matches.
SetupRaises(exc) ==
    IF IsInstance(exc, "MotionEyeClientInvalidAuthError")
    THEN "ConfigEntryAuthFailed"
    ELSE IF IsInstance(exc, "MotionEyeClientError")
    THEN "ConfigEntryNotReady"
    ELSE exc

\* The client's session after a failed login, when the error is raised.
ClientAfterFailedLogin == "closed"

\* async_setup_entry when the login raises.
LoginFailed ==
    /\ pc = "login"
    /\ \E exc \in LoginOutcomes \ {"ok"} :
        /\ client' = ClientAfterFailedLogin
        /\ last' = [Quiet("setup") EXCEPT !.raised = SetupRaises(exc),
                                          !.cause = exc]
        /\ pc' = IF SetupRaises(exc) = "ConfigEntryAuthFailed"
                 THEN "setup_error" ELSE "setup_retry"
    /\ UNCHANGED <<entryData, options, hubUrl, webhooks, hassData, platforms,
                   listeners, coordData, currentCameras, devices, deleted,
                   setups, hook, history>>

\* A new id at every setup.
EnsureWebhookIdAlways(data, generated) == Put(data, CONF_WEBHOOK_ID, generated)

\* entry.data after "if CONF_WEBHOOK_ID not in entry.data: async_update_entry".
EnsureWebhookId(data, generated) ==
    IF ~Has(data, CONF_WEBHOOK_ID) THEN Put(data, CONF_WEBHOOK_ID, generated)
    ELSE data

\* async_setup_entry after a successful login, to its return: the web hook id,
\* the web hook, the coordinator, the hass.data record, the setup task.
LoginOk ==
    /\ pc = "login"
    /\ entryData' = EnsureWebhookId(entryData, AsyncGenerateId(setups))
    /\ webhooks' = webhooks \cup {entryData'[CONF_WEBHOOK_ID]}
    /\ client' = "open"
    /\ hassData' = Put(hassData, ENTRY_ID,
                       [client |-> "client", coordinator |-> "coordinator"])
    /\ coordData' = <<>>
    /\ currentCameras' = {}
    /\ pc' = "setup_task"
    /\ last' = [Quiet("setup") EXCEPT !.returned = "True"]
    /\ history' = NoHistory
    /\ UNCHANGED <<options, hubUrl, platforms, listeners, devices, deleted,
                   setups, hook>>

\* setup_then_listen that does not wait for the platforms: the listener is
\* attached and the first refresh starts while they are still being set up.
ForwardPlatformsNotAwaited ==
    /\ pc = "setup_task"
    /\ listeners' = listeners \cup {"process_cameras"}
    /\ pc' = "first_refresh"
    /\ last' = Quiet("forward")
    /\ UNCHANGED <<entryData, options, hubUrl, client, webhooks, hassData,
                   platforms, coordData, currentCameras, devices, deleted,
                   setups, hook, history>>

\* setup_then_listen to its second await: the platforms are forwarded, the
\* reconciliation listener is attached, the first refresh starts.
ForwardPlatforms ==
    /\ pc = "setup_task"
    /\ platforms' = "set_up"
    /\ listeners' = listeners \cup {"process_cameras"}
    /\ pc' = "first_refresh"
    /\ last' = Quiet("forward")
    /\ UNCHANGED <<entryData, options, hubUrl, client, webhooks, hassData,
                   coordData, currentCameras, devices, deleted, setups, hook,
                   history>>

\* The state after a refresh whose listener run is r.
Refreshed(data, failed, r) ==
    /\ coordData' = r.coordData
    /\ currentCameras' = r.current
    /\ devices' = r.devices
    /\ deleted' = r.deleted
    /\ history' = Recorded(history, r)
    /\ last' = [Quiet("poll") EXCEPT
                  !.polled = data,
                  !.raised = IF failed THEN "UpdateFailed" ELSE "",
                  !.pushes = r.pushes,
                  !.signals = r.signals,
                  !.added = r.added,
                  !.removed = r.removed,
                  !.reconciled = ~r.returned]

\* coordinator.async_refresh: coordinator.data is the result (kept when the
\* poll failed), then the listener runs.
Refresh(got, failed) ==
    Refreshed(IF failed THEN coordData ELSE got, failed,
              ProcessMotioneyeCameras(IF failed THEN coordData ELSE got,
                                      currentCameras, devices, deleted,
                                      options, entryData, hubUrl))

\* setup_then_listen from the first refresh on, the poll's result being one of
\* results: the reload listener is attached when the refresh is over.
FirstRefreshOf(results) ==
    /\ pc = "first_refresh"
    /\ \E got \in results, failed \in BOOLEAN : Refresh(got, failed)
    /\ listeners' = listeners \cup {"entry_updated"}
    /\ pc' = "loaded"
    /\ UNCHANGED <<entryData, options, hubUrl, client, webhooks, hassData,
                   platforms, setups, hook>>

\* A later refresh of the coordinator that succeeds with one of results.
PollOf(results) ==
    /\ pc \in {"loaded", "failed_unload"}
    /\ \E got \in results : Refresh(got, FALSE)
    /\ UNCHANGED <<pc, entryData, options, hubUrl, client, webhooks, hassData,
                   platforms, listeners, setups, hook>>

FirstRefresh == FirstRefreshOf(PollResults)

Poll == PollOf(PollResults)

\* A later refresh whose async_get_cameras raises MotionEyeClientError.
PollFailed ==
    /\ pc \in {"loaded", "failed_unload"}
    /\ Refresh(<<>>, TRUE)
    /\ UNCHANGED <<pc, entryData, options, hubUrl, client, webhooks, hassData,
                   platforms, listeners, setups, hook>>

\* async_unload_entry to its first await: the web hook is unregistered and
\* the platforms start to unload.
UnloadStart ==
    /\ pc = "loaded"
    /\ webhooks' = webhooks \ {entryData[CONF_WEBHOOK_ID]}
    /\ pc' = "unloading"
    /\ last' = Quiet("unload")
    /\ UNCHANGED <<entryData, options, hubUrl, client, hassData, platforms,
                   listeners, coordData, currentCameras, devices, deleted,
                   setups, hook, history>>

\* The record left in hass.data.
PopEntryKept(hd) == hd

\* hass.data[DOMAIN] after pop(entry.entry_id).
PopEntry(hd) == [e \in DOMAIN hd \ {ENTRY_ID} |-> hd[e]]

\* async_unload_entry when the platforms are unloaded: the record is popped
\* and the client starts to close.
UnloadPlatformsOk ==
    /\ pc = "unloading"
    /\ platforms' = "unloaded"
    /\ hassData' = PopEntry(hassData)
    /\ pc' = "closing"
    /\ last' = Quiet("unload")
    /\ UNCHANGED <<entryData, options, hubUrl, client, webhooks, listeners,
                   coordData, currentCameras, devices, deleted, setups, hook,
                   history>>

\* async_unload_entry when the platforms do not unload: it returns False.
UnloadPlatformsFailed ==
    /\ pc = "unloading"
    /\ pc' = "failed_unload"
    /\ last' = [Quiet("unload") EXCEPT !.returned = "False"]
    /\ UNCHANGED <<entryData, options, hubUrl, client, webhooks, hassData,
                   platforms, listeners, coordData, currentCameras, devices,
                   deleted, setups, hook, history>>

\* async_unload_entry when the client is closed: it returns True, and the hub
\* runs the entry's on-unload callbacks, which detach the listeners.
UnloadClose ==
    /\ pc = "closing"
    /\ client' = "closed"
    /\ listeners' = {}
    /\ pc' = "not_loaded"
    /\ last' = [Quiet("unload") EXCEPT !.returned = "True"]
    /\ UNCHANGED <<entryData, options, hubUrl, webhooks, hassData, platforms,
                   coordData, currentCameras, devices, deleted, setups, hook,
                   history>>

\* The hub hands a request to handle_webhook: only for a registered id.
Webhook ==
    /\ \E webhook_id \in webhooks, body \in WebhookBodies :
        LET r == HandleWebhook(devices, webhook_id, body)
        IN last' = [Quiet("webhook") EXCEPT
                      !.webhook_id = webhook_id,
                      !.request = <<body>>,
                      !.returned = r.returned,
                      !.raised = r.raised,
                      !.events = r.events]
    /\ UNCHANGED <<pc, entryData, options, hubUrl, client, webhooks, hassData,
                   platforms, listeners, coordData, currentCameras, devices,
                   deleted, setups, hook, history>>

\* The entry's life: setup, polls, unload.
Next ==
    \/ SetupStart
    \/ LoginFailed
    \/ LoginOk
    \/ ForwardPlatforms
    \/ FirstRefresh
    \/ Poll
    \/ PollFailed
    \/ UnloadStart
    \/ UnloadPlatformsOk
    \/ UnloadPlatformsFailed
    \/ UnloadClose

Spec == Init /\ [][Next]_vars

\* The polls of the web hook specification: no data, no camera, one camera.
FewPollResults ==
    {<<>>, <<(KEY_CAMERAS :> <<>>)>>,
     <<(KEY_CAMERAS :> <<Camera(1, EmptyDict)>>)>>}

FirstRefreshFew == FirstRefreshOf(FewPollResults)

PollFew == PollOf(FewPollResults)

\* The entry's life with few polls, and the requests to its web hook.
NextWebhook ==
    \/ SetupStart
    \/ LoginFailed
    \/ LoginOk
    \/ ForwardPlatforms
    \/ FirstRefreshFew
    \/ PollFew
    \/ UnloadStart
    \/ UnloadPlatformsOk
    \/ UnloadPlatformsFailed
    \/ UnloadClose
    \/ Webhook

SpecWebhook == Init /\ [][NextWebhook]_vars

----------------------------------------------------------------------------
(* _set_webhook on its own: every kind of hook a camera may hold, against  *)
(* every target, applied once and then once more.                          *)

\* A hook's three keys: URL, method, enabled.
MotionKeys == <<KEY_WEB_HOOK_NOTIFICATIONS_URL,
                KEY_WEB_HOOK_NOTIFICATIONS_HTTP_METHOD,
                KEY_WEB_HOOK_NOTIFICATIONS_ENABLED>>
StorageKeys == <<KEY_WEB_HOOK_STORAGE_URL,
                 KEY_WEB_HOOK_STORAGE_HTTP_METHOD,
                 KEY_WEB_HOOK_STORAGE_ENABLED>>

\* The dicts over one key with a value of vals, and the dict without the key.
Optional(key, vals) == {EmptyDict} \cup {(key :> v) : v \in vals}

\* The URLs a hook may hold before _set_webhook: none, a user's, and this
\* integration's own for one device or another.
HookUrls(event_type, event_keys) ==
    {"", FOREIGN_URL,
     OwnUrl("d1", "w1", event_type, event_keys),
     OwnUrl("d2", "w1", event_type, event_keys)}

\* Every state of one hook.
HookDicts(keys, event_type, event_keys) ==
    {u @@ m @@ e :
        u \in Optional(keys[1], HookUrls(event_type, event_keys)),
        m \in Optional(keys[2], {KEY_HTTP_METHOD_GET, KEY_HTTP_METHOD_POST_JSON}),
        e \in Optional(keys[3], BOOLEAN)}

\* The targets _set_webhook is given: built URLs, and a user's URL.
HookTargets ==
    {OwnUrl("d1", "w1", EVENT_MOTION_DETECTED, EVENT_MOTION_DETECTED_KEYS),
     OwnUrl("d2", "w1", EVENT_MOTION_DETECTED, EVENT_MOTION_DETECTED_KEYS),
     FOREIGN_URL}

\* The variables of the entry's life, at rest.
EntryAtRest ==
    /\ pc = "not_loaded"
    /\ entryData = EmptyDict
    /\ options = EmptyDict
    /\ hubUrl = HUB_URL
    /\ client = "none"
    /\ webhooks = {}
    /\ hassData = EmptyDict
    /\ platforms = "not_set_up"
    /\ listeners = {}
    /\ coordData = <<>>
    /\ currentCameras = {}
    /\ devices = InitRegistry
    /\ deleted = EmptyDict
    /\ setups = 0
    /\ last = Quiet("none")
    /\ history = NoHistory

InitHook ==
    /\ EntryAtRest
    /\ \E overwrite \in BOOLEAN, url \in HookTargets,
          camera \in {Camera(1, h) :
                        h \in HookDicts(MotionKeys, EVENT_MOTION_DETECTED,
                                        EVENT_MOTION_DETECTED_KEYS)} :
        hook = [stage |-> "input", overwrite |-> overwrite, url |-> url,
                camera |-> camera,
                first |-> [set |-> FALSE, camera |-> camera],
                second |-> [set |-> FALSE, camera |-> camera]]

\* _set_webhook on the motion hook of hook.camera.
ApplySetWebhook ==
    /\ hook.stage = "input"
    /\ hook' = [hook EXCEPT
                  !.stage = "once",
                  !.first = SetWebhook(hook.overwrite, hook.url, MotionKeys[1],
                                       MotionKeys[2], MotionKeys[3], hook.camera)]
    /\ UNCHANGED <<pc, entryData, options, hubUrl, client, webhooks, hassData,
                   platforms, listeners, coordData, currentCameras, devices,
                   deleted, setups, last, history>>

\* _set_webhook once more, with the same arguments, on the camera it left.
ApplyAgain ==
    /\ hook.stage = "once"
    /\ hook' = [hook EXCEPT
                  !.stage = "twice",
                  !.second = SetWebhook(hook.overwrite, hook.url, MotionKeys[1],
                                        MotionKeys[2], MotionKeys[3],
                                        hook.first.camera)]
    /\ UNCHANGED <<pc, entryData, options, hubUrl, client, webhooks, hassData,
                   platforms, listeners, coordData, currentCameras, devices,
                   deleted, setups, last, history>>

NextHook == ApplySetWebhook \/ ApplyAgain

SpecHook == InitHook /\ [][NextHook]_vars

----------------------------------------------------------------------------
(* _add_camera on its own: a camera with any motion hook and a choice of   *)
(* storage hooks is added in a loaded session, under every setting.        *)

\* Every entry.options over the two keys _add_camera reads.
AllOptions ==
    {a @@ b : a \in Optional(CONF_WEBHOOK_SET, BOOLEAN),
              b \in Optional(CONF_WEBHOOK_SET_OVERWRITE, BOOLEAN)}

\* The storage hooks of the cameras added: never set, a user's, this
\* integration's as it would set it, and the same switched off.
StorageHooks ==
    {EmptyDict,
     (StorageKeys[1] :> FOREIGN_URL) @@ (StorageKeys[2] :> KEY_HTTP_METHOD_GET)
        @@ (StorageKeys[3] :> TRUE),
     (StorageKeys[1] :> OwnUrl("d1", "w1", EVENT_FILE_STORED,
                               EVENT_FILE_STORED_KEYS))
        @@ (StorageKeys[2] :> KEY_HTTP_METHOD_POST_JSON)
        @@ (StorageKeys[3] :> TRUE),
     (StorageKeys[1] :> OwnUrl("d1", "w1", EVENT_FILE_STORED,
                               EVENT_FILE_STORED_KEYS))
        @@ (StorageKeys[2] :> KEY_HTTP_METHOD_POST_JSON)
        @@ (StorageKeys[3] :> FALSE)}

\* A session that is loaded and has polled nothing yet.
InitAdd ==
    /\ pc = "loaded"
    /\ entryData = (CONF_WEBHOOK_ID :> "w1")
    /\ options \in AllOptions
    /\ hubUrl \in {HUB_URL, NoUrl}
    /\ client = "open"
    /\ webhooks = {"w1"}
    /\ hassData = (ENTRY_ID :> [client |-> "client",
                                coordinator |-> "coordinator"])
    /\ platforms = "set_up"
    /\ listeners = {"process_cameras", "entry_updated"}
    /\ coordData = <<>>
    /\ currentCameras = {}
    /\ devices = InitRegistry
    /\ deleted = EmptyDict
    /\ setups = 1
    /\ last = Quiet("none")
    /\ history = NoHistory
    /\ \E m \in HookDicts(MotionKeys, EVENT_MOTION_DETECTED,
                          EVENT_MOTION_DETECTED_KEYS),
          st \in StorageHooks :
        hook = [stage |-> "input", camera |-> Camera(1, m @@ st),
                result |-> AddCameraDone(
                    [devices |-> devices, deleted |-> deleted, id |-> ""],
                    [camera |-> EmptyDict, set_motion_event |-> FALSE,
                     set_storage_event |-> FALSE, pushes |-> <<>>])]

\* The state after _add_camera whose result is add.
CameraAdded(device_identifier, add) ==
    /\ hook' = [hook EXCEPT !.stage = "added", !.result = add]
    /\ devices' = add.devices
    /\ deleted' = add.deleted
    /\ currentCameras' = currentCameras \cup {device_identifier}

\* The listener adds hook.camera: _add_camera.
AddCameraStep ==
    /\ hook.stage = "input"
    /\ CameraAdded(
         get_motioneye_device_identifier(ENTRY_ID, hook.camera[KEY_ID]),
         AddCamera(devices, deleted, options, entryData, hubUrl,
                   hook.camera[KEY_ID], hook.camera,
                   get_motioneye_device_identifier(ENTRY_ID,
                                                   hook.camera[KEY_ID])))
    /\ UNCHANGED <<pc, entryData, options, hubUrl, client, webhooks, hassData,
                   platforms, listeners, coordData, setups, last, history>>

NextAdd == AddCameraStep

SpecAdd == InitAdd /\ [][NextAdd]_vars

----------------------------------------------------------------------------
(* _build_url on its own: a URL is built for a device, a base and an       *)
(* event, held by a camera's motion hook, and the hook is then set again   *)
(* for another device or base without the overwrite option.                *)

\* The ids of the devices URLs are built for.
UrlDeviceIds == {"d1", "d2"}

\* The bases _build_url is given: what async_generate_motioneye_webhook
\* yields for one hub or another, and a base that has a query of its own.
UrlBases ==
    {async_generate_motioneye_webhook(HUB_URL, "w1"),
     async_generate_motioneye_webhook(HUB_URL, "w2"),
     async_generate_motioneye_webhook("https://ha.example.org", "w1"),
     async_generate_motioneye_webhook(HUB_URL, "w1") \o "?x=1"}

\* The key lists: the two of const.py, none, and one brace specifier alone.
UrlKeyLists ==
    {EVENT_MOTION_DETECTED_KEYS, EVENT_FILE_STORED_KEYS, <<>>, <<"host">>}

InitUrl ==
    /\ EntryAtRest
    /\ \E device_id \in UrlDeviceIds, base \in UrlBases,
          event_type \in {EVENT_MOTION_DETECTED, EVENT_FILE_STORED},
          keys \in UrlKeyLists :
        hook = [stage |-> "url_input", device_id |-> device_id, base |-> base,
                event_type |-> event_type, keys |-> keys, url |-> "",
                target |-> "", rewrite |-> [set |-> FALSE, camera |-> EmptyDict]]

\* _build_url on the arguments of hook.
BuildUrlStep ==
    /\ hook.stage = "url_input"
    /\ hook' = [hook EXCEPT
                  !.stage = "built",
                  !.url = BuildUrl(hook.device_id, hook.base, hook.event_type,
                                   hook.keys)]
    /\ UNCHANGED <<pc, entryData, options, hubUrl, client, webhooks, hassData,
                   platforms, listeners, coordData, currentCameras, devices,
                   deleted, setups, last, history>>

\* The camera whose motion hook is as _set_webhook writes it, with this URL.
CameraWithHook(url) ==
    SetWebhookWrite(url, MotionKeys[1], MotionKeys[2], MotionKeys[3],
                    Camera(1, EmptyDict))

\* A later session, the overwrite option off, sets the hook that holds the
\* URL built: _set_webhook with the URL built for a device and a base.
RewriteStep ==
    /\ hook.stage = "built"
    /\ \E device_id \in UrlDeviceIds, base \in UrlBases :
        hook' = [hook EXCEPT
                   !.stage = "rewritten",
                   !.target = BuildUrl(device_id, base, hook.event_type,
                                       hook.keys),
                   !.rewrite = SetWebhook(
                       FALSE,
                       BuildUrl(device_id, base, hook.event_type, hook.keys),
                       MotionKeys[1], MotionKeys[2], MotionKeys[3],
                       CameraWithHook(hook.url))]
    /\ UNCHANGED <<pc, entryData, options, hubUrl, client, webhooks, hassData,
                   platforms, listeners, coordData, currentCameras, devices,
                   deleted, setups, last, history>>

NextUrl == BuildUrlStep \/ RewriteStep

SpecUrl == InitUrl /\ [][NextUrl]_vars

----------------------------------------------------------------------------
(* Properties.                                                             *)

\* The last operation was a poll in the loaded session whose camera list is
\* present and holds only cameras with an id and a name.
AcceptablePoll ==
    /\ last.op = "poll"
    /\ last.polled # <<>>
    /\ Has(last.polled[1], KEY_CAMERAS)
    /\ \A i \in DOMAIN last.polled[1][KEY_CAMERAS] :
         /\ Has(last.polled[1][KEY_CAMERAS][i], KEY_ID)
         /\ Has(last.polled[1][KEY_CAMERAS][i], KEY_NAME)

\* The device identifiers of the cameras of the last poll's list.
PolledIdentifiers ==
    {get_motioneye_device_identifier(ENTRY_ID,
                                     last.polled[1][KEY_CAMERAS][i][KEY_ID]) :
        i \in DOMAIN last.polled[1][KEY_CAMERAS]}

\* The devices registered for the config entry.
EntryDevices == {d \in DOMAIN devices : ENTRY_ID \in devices[d].config_entries}

\* C1: after each poll of a loaded session whose camera list is present and
\* holds only acceptable cameras, every camera of the list has a device
\* registered for the config entry, also a camera that was listed, then not
\* listed, and is listed again.
C1_ListedCamerasHaveDevices ==
    (pc = "loaded" /\ AcceptablePoll) =>
        \A ident \in PolledIdentifiers :
            \E d \in EntryDevices : ident \in devices[d].identifiers

\* C2: after each poll whose camera list is present and holds only acceptable
\* cameras, every device left for the config entry has an identifier of a
\* camera of that list; an empty list leaves the entry no device.
C2_NoStaleDeviceAfterPoll ==
    AcceptablePoll =>
        \A d \in EntryDevices : devices[d].identifiers \cap PolledIdentifiers # {}

\* C2's case: a poll with an empty camera list has removed the entry's devices.
C2_Witness ==
    /\ AcceptablePoll
    /\ last.polled[1][KEY_CAMERAS] = <<>>
    /\ last.removed # {}
    /\ EntryDevices = {}

\* The request of the last web hook call is one handle_webhook is to accept: a
\* JSON object with both parameters whose device id is a registered device's.
ValidRequest ==
    LET body == last.request[1]
    IN /\ body.kind = "object"
       /\ Has(body.obj, ATTR_DEVICE_ID)
       /\ Has(body.obj, ATTR_EVENT_TYPE)
       /\ body.obj[ATTR_DEVICE_ID].kind = "string"
       /\ body.obj[ATTR_DEVICE_ID].str \in DOMAIN devices

\* C3: handle_webhook fires an event if and only if the body decodes as a JSON
\* object with both parameters and the device id resolves; in every other case
\* it returns a 400 response and fires nothing.
C3_FiresOrBadRequest ==
    last.op = "webhook" =>
        /\ last.events # <<>> <=> ValidRequest
        /\ ~ValidRequest => (last.returned = "400" /\ last.events = <<>>)

\* The overwrite option is off.
OverwriteOff ==
    ~(Has(options, CONF_WEBHOOK_SET_OVERWRITE)
      /\ options[CONF_WEBHOOK_SET_OVERWRITE])

\* The hook with these keys is a user's own: its URL is not empty and does not
\* hold the integration's sentinel pair.
UserHook(camera, keys) ==
    /\ Has(camera, keys[1])
    /\ camera[keys[1]] # ""
    /\ ~Contains(camera[keys[1]], "src=hass-motioneye")

\* Two camera dicts agree on the hook with these keys.
SameHook(a, b, keys) ==
    \A k \in Range(keys) :
        /\ Has(a, k) <=> Has(b, k)
        /\ Has(a, k) => a[k] = b[k]

OtherKeys(keys) == IF keys = MotionKeys THEN StorageKeys ELSE MotionKeys

\* C4: with the overwrite option off, adding a camera leaves a user's own hook
\* as it was (URL, method, enabled flag), in the camera dict and in any push,
\* and no push is scheduled unless the other hook was written.
C4_UserHookPreserved ==
    (hook.stage = "added" /\ OverwriteOff) =>
        \A keys \in {MotionKeys, StorageKeys} :
            UserHook(hook.camera, keys) =>
                /\ SameHook(hook.camera, hook.result.camera, keys)
                /\ \A i \in DOMAIN hook.result.pushes :
                     SameHook(hook.camera, hook.result.pushes[i][2], keys)
                /\ SameHook(hook.camera, hook.result.camera, OtherKeys(keys))
                     => hook.result.pushes = <<>>

\* C4's case: a camera with a user's motion hook was added, its storage hook
\* was written and pushed.
C4_Witness ==
    /\ hook.stage = "added"
    /\ OverwriteOff
    /\ UserHook(hook.camera, MotionKeys)
    /\ hook.result.pushes # <<>>

\* C5: _set_webhook applied a second time with the same arguments returns
\* False and changes no field of the camera.
C5_SetWebhookIdempotent ==
    hook.stage = "twice" =>
        /\ ~hook.second.set
        /\ hook.second.camera = hook.first.camera

\* C5's case: the first application wrote the hook, the second was made.
C5_Witness == hook.stage = "twice" /\ hook.first.set

\* C6: when the login fails, the client is closed when the error is raised,
\* invalid authentication is raised as ConfigEntryAuthFailed and any other
\* client error as ConfigEntryNotReady, and no web hook is registered, no web
\* hook id generated, no record stored and no poll started.
C6_LoginFailure ==
    [][(pc = "login" /\ last'.raised # "") =>
          /\ client' = "closed"
          /\ last'.raised = IF last'.cause = "MotionEyeClientInvalidAuthError"
                            THEN "ConfigEntryAuthFailed"
                            ELSE "ConfigEntryNotReady"
          /\ webhooks' = {}
          /\ entryData' = entryData
          /\ ENTRY_ID \notin DOMAIN hassData'
          /\ listeners' = {}
          /\ pc' \in {"setup_error", "setup_retry"}
          /\ coordData' = coordData]_vars

\* C6's case: a login has failed with an error other than invalid
\* authentication.
C6_Witness ==
    /\ last.op = "setup"
    /\ last.cause = "MotionEyeClientConnectionError"
    /\ last.raised = "ConfigEntryNotReady"

\* C7: after a successful setup the entry's data holds a web hook id and the
\* web hook is registered under exactly that id; an id the data holds is never
\* changed.
C7_WebhookIdStable ==
    /\ [](last.op = "setup" /\ last.returned = "True" =>
            /\ Has(entryData, CONF_WEBHOOK_ID)
            /\ webhooks = {entryData[CONF_WEBHOOK_ID]})
    /\ [][Has(entryData, CONF_WEBHOOK_ID) => entryData' = entryData]_vars

\* C7's case: the entry was set up, unloaded and set up again, its id being
\* there already.
C7_Witness ==
    /\ setups = 2
    /\ platforms = "unloaded"
    /\ last.op = "setup"
    /\ last.returned = "True"

\* C8: when async_unload_entry returns True the web hook is unregistered, the
\* record is gone from hass.data and the client is closed; and whenever the
\* client is closed in an unload, the platforms are unloaded.
C8_UnloadReleases ==
    /\ (last.op = "unload" /\ last.returned = "True") =>
          /\ entryData[CONF_WEBHOOK_ID] \notin webhooks
          /\ ENTRY_ID \notin DOMAIN hassData
          /\ client = "closed"
    /\ (last.op = "unload" /\ client = "closed") => platforms = "unloaded"
    /\ (last.op = "unload" /\ platforms = "unloaded") => last.returned # "False"

\* C8's case: an unload has returned True.
C8_Witness == last.op = "unload" /\ last.returned = "True"

\* What C9 says of the hook's URL before the call.
ExistingUrl(camera, keys) ==
    IF ~Has(camera, keys[1]) \/ camera[keys[1]] = "" THEN "absent or empty"
    ELSE IF Contains(camera[keys[1]], "src=hass-motioneye") THEN "recognized"
    ELSE "foreign"

\* C9's reference: whether the hook is to be written.
ReferenceWrites(overwrite, url, camera, keys) ==
    /\ \/ overwrite
       \/ ExistingUrl(camera, keys) \in {"absent or empty", "recognized"}
    /\ \/ ~(Has(camera, keys[3]) /\ camera[keys[3]])
       \/ ~(Has(camera, keys[2]) /\ camera[keys[2]] = "POST (json)")
       \/ ~(Has(camera, keys[1]) /\ camera[keys[1]] = url)

\* C9: _set_webhook writes (enabled, POST-JSON, the target URL; True) exactly
\* when the reference says so, and else returns False and leaves the camera.
C9_SetWebhookReference ==
    hook.stage \in {"once", "twice"} =>
        IF ReferenceWrites(hook.overwrite, hook.url, hook.camera, MotionKeys)
        THEN /\ hook.first.set
             /\ hook.first.camera[MotionKeys[3]] = TRUE
             /\ hook.first.camera[MotionKeys[2]] = "POST (json)"
             /\ hook.first.camera[MotionKeys[1]] = hook.url
             /\ hook.first.camera[KEY_ID] = hook.camera[KEY_ID]
             /\ hook.first.camera[KEY_NAME] = hook.camera[KEY_NAME]
             /\ DOMAIN hook.first.camera =
                  DOMAIN hook.camera \cup Range(MotionKeys)
        ELSE /\ ~hook.first.set
             /\ hook.first.camera = hook.camera

\* C9's case: without overwrite, a recognized hook for another device was
\* rewritten.
C9_Witness ==
    /\ hook.stage = "once"
    /\ ~hook.overwrite
    /\ ExistingUrl(hook.camera, MotionKeys) = "recognized"
    /\ hook.camera[MotionKeys[1]] # hook.url
    /\ hook.first.set

\* The camera was added and the hook with these keys is not as it was.
Written(keys) == ~SameHook(hook.camera, hook.result.camera, keys)

\* C10: adding a camera schedules a push if and only if one of the two hooks
\* was written, one push at most, and the push carries the camera with both
\* hooks as they are in the end.
C10_OnePushIffWritten ==
    hook.stage = "added" =>
        /\ hook.result.set_motion_event <=> Written(MotionKeys)
        /\ hook.result.set_storage_event <=> Written(StorageKeys)
        /\ Len(hook.result.pushes) =
             IF Written(MotionKeys) \/ Written(StorageKeys) THEN 1 ELSE 0
        /\ \A i \in DOMAIN hook.result.pushes :
             /\ hook.result.pushes[i][1] = hook.camera[KEY_ID]
             /\ hook.result.pushes[i][2] = hook.result.camera

\* C10's case: only the storage hook was written, and one push scheduled.
C10_Witness ==
    /\ hook.stage = "added"
    /\ Written(StorageKeys)
    /\ ~Written(MotionKeys)
    /\ Len(hook.result.pushes) = 1

\* The web hooks are not to be set: the option is off.
WebhookSetOff == Has(options, CONF_WEBHOOK_SET) /\ ~options[CONF_WEBHOOK_SET]

\* The camera of the hook experiment has a device of the config entry.
AddedCameraHasDevice ==
    \E d \in DOMAIN hook.result.devices :
        /\ d = hook.result.device_id
        /\ ENTRY_ID \in hook.result.devices[d].config_entries
        /\ get_motioneye_device_identifier(ENTRY_ID, hook.camera[KEY_ID])
             \in hook.result.devices[d].identifiers
        /\ devices = hook.result.devices

\* C11: with the web-hook-set option off, or without a hub URL, adding a camera
\* leaves every field of the camera as it was and schedules no push, while the
\* device is created for the entry and the camera-add signal is dispatched.
C11_NoHookWithoutUrl ==
    (hook.stage = "added" /\ (WebhookSetOff \/ hubUrl = NoUrl)) =>
        /\ hook.result.camera = hook.camera
        /\ hook.result.pushes = <<>>
        /\ ~hook.result.set_motion_event
        /\ ~hook.result.set_storage_event
        /\ AddedCameraHasDevice
        /\ hook.result.signals = <<hook.camera>>

\* C11's case: with a hub URL but the option off, a camera whose hooks were
\* never set was added.
C11_Witness ==
    /\ hook.stage = "added"
    /\ WebhookSetOff
    /\ hubUrl = HUB_URL
    /\ ~Has(hook.camera, MotionKeys[1])
    /\ ~Has(hook.camera, StorageKeys[1])
    /\ AddedCameraHasDevice

\* C12: the event handle_webhook fires has the type "<domain>.<event_type>";
\* its payload holds every field of the body, and its device id, name and web
\* hook id are the resolved device's id, the resolved device's name and the id
\* of the web hook that took the call, whatever keys the body carries.
C12_EventPayload ==
    (last.op = "webhook" /\ last.events # <<>>) =>
        LET body == last.request[1].obj
            event == last.events[1]
        IN /\ event[1] = "motioneye." \o body[ATTR_EVENT_TYPE].str
           /\ DOMAIN body \subseteq DOMAIN event[2]
           /\ \A k \in DOMAIN body \ {"device_id", "name", "webhook_id"} :
                event[2][k] = body[k]
           /\ event[2]["device_id"].str = body[ATTR_DEVICE_ID].str
           /\ event[2]["name"].str = devices[body[ATTR_DEVICE_ID].str].name
           /\ event[2]["webhook_id"].str = last.webhook_id

\* C13: within one loaded session each camera identifier is added at most
\* once; a poll adds only identifiers the listener has not come to in an
\* earlier poll of the session, and devices are created, signals dispatched
\* and pushes scheduled only for the cameras it adds.
C13_AddedAtMostOnce ==
    /\ [](\A ident \in DOMAIN history.adds : history.adds[ident] <= 1)
    /\ [][last'.op = "poll" =>
            /\ \A i \in DOMAIN last'.added : last'.added[i] \notin history.seen
            /\ Len(last'.signals) = Len(last'.added)
            /\ Len(last'.pushes) <= Len(last'.added)
            /\ \A d \in DOMAIN devices' \ DOMAIN devices :
                 devices'[d].identifiers \cap Range(last'.added) # {}]_vars

\* C13's case: a poll has listed a camera that an earlier poll of the session
\* added, and has gone through the whole list without adding anything.
C13_Witness ==
    /\ last.op = "poll"
    /\ last.reconciled
    /\ last.polled[1][KEY_CAMERAS] # <<>>
    /\ last.added = <<>>
    /\ \A ident \in PolledIdentifiers :
         Has(history.adds, ident) /\ history.adds[ident] = 1

\* C14: every URL _build_url produces holds the sentinel pair as it is
\* written, so _is_recognized_web_hook recognizes it, and a hook that holds
\* such a URL is set to a new target without the overwrite option.
C14_BuiltUrlRecognized ==
    /\ hook.stage \in {"built", "rewritten"} =>
          /\ Contains(hook.url, "src=hass-motioneye")
          /\ IsRecognizedWebHook(hook.url)
    /\ hook.stage = "rewritten" =>
          /\ hook.rewrite.set <=> hook.target # hook.url
          /\ hook.rewrite.set => hook.rewrite.camera[MotionKeys[1]] = hook.target

\* C14's case: a URL built for one device was replaced, the overwrite option
\* off, by the URL built for another device.
C14_Witness ==
    /\ hook.stage = "rewritten"
    /\ hook.device_id = "d1"
    /\ hook.rewrite.set
    /\ Contains(hook.rewrite.camera[MotionKeys[1]], "device_id=d2")

\* The devices that belong to other config entries only.
ForeignDevices(devs) ==
    {d \in DOMAIN devs : ENTRY_ID \notin devs[d].config_entries}

\* C15: a device that belongs only to another config entry is never removed
\* from the registry and none of its fields is ever changed, by any poll.
C15_ForeignDevicesKept ==
    [][\A d \in ForeignDevices(devices) :
          /\ d \in DOMAIN devices'
          /\ devices'[d] = devices[d]
          /\ d \notin DOMAIN deleted']_vars

\* C15's case: a poll has removed a device of the entry, and the other
\* entry's device is in the registry.
C15_Witness ==
    /\ last.op = "poll"
    /\ last.removed # {}
    /\ ForeignDevices(devices) # {}

NoCameraList == last.polled = <<>> \/ ~Has(last.polled[1], KEY_CAMERAS)

\* C17: a poll that yields no data, or data without the cameras key, creates
\* and removes no device, leaves the set of known cameras as it is, dispatches
\* no signal and schedules no push.
C17_NoDataNoChange ==
    [][(last'.op = "poll" /\ NoCameraList') =>
          /\ devices' = devices
          /\ deleted' = deleted
          /\ currentCameras' = currentCameras
          /\ history' = history
          /\ last'.signals = <<>>
          /\ last'.pushes = <<>>
          /\ last'.added = <<>>
          /\ last'.removed = {}
          /\ ~last'.reconciled]_vars

\* C17's case: a session that has added a camera has polled a dict without
\* the cameras key, and the camera's device is in the registry.
C17_Witness ==
    /\ last.op = "poll"
    /\ last.raised = ""
    /\ last.polled = <<EmptyDict>>
    /\ currentCameras # {}
    /\ EntryDevices # {}

\* The camera list of the last poll holds a camera without an id or a name.
UnacceptablePoll ==
    /\ last.op = "poll"
    /\ ~NoCameraList
    /\ \E i \in DOMAIN last.polled[1][KEY_CAMERAS] :
         ~is_acceptable_camera(last.polled[1][KEY_CAMERAS][i])

\* C18: a poll whose camera list holds an unacceptable camera, wherever in the
\* list, changes nothing: no camera of the list is added, no device removed,
\* and the set of known cameras is what it was.
C18_UnacceptableNoChange ==
    [][UnacceptablePoll' =>
          /\ last'.added = <<>>
          /\ last'.removed = {}
          /\ last'.signals = <<>>
          /\ devices' = devices
          /\ currentCameras' = currentCameras]_vars

\* C19: when async_unload_entry returns False the client is not closed, the
\* entry's record is in hass.data and the entry's web hook is registered; the
\* web hook is registered in every state, after setup and outside a running
\* unload, in which the record is there.
C19_FailedUnloadKeepsWebhook ==
    /\ (last.op = "unload" /\ last.returned = "False") =>
          /\ client = "open"
          /\ Has(hassData, ENTRY_ID)
          /\ entryData[CONF_WEBHOOK_ID] \in webhooks
    /\ (Has(hassData, ENTRY_ID) /\ pc # "unloading") =>
          entryData[CONF_WEBHOOK_ID] \in webhooks

====
